---- MODULE Spec2Model ----
(***************************************************************************)
(* A model of trailmark.py: the pipeline                                   *)
(*   load_gpx -> generate_waypoints -> save_combined_gpx                   *)
(* run by main(), and the pure helpers it is built from.                   *)
(*                                                                         *)
(* Conventions                                                             *)
(*  - Python lists are sequences; Python index i is index i + 1 here.      *)
(*  - An optional value (Python None or a value) is a sequence of length   *)
(*    0 or 1: None == <<>>, Some(v) == <<v>>.                              *)
(*  - A distance is a Python float, an IEEE 754 binary64, and every        *)
(*    operation on it rounds as the hardware does: the float x is held as  *)
(*    the natural number x * 2^FracBits, written in base LimbBase.         *)
(*  - Longitudes are arc lengths along the equator in whole metres, so     *)
(*    geod.inv() returns a whole number of metres.                         *)
(*  - A waypoint holds a reference to a point object of the first          *)
(*    segment; the reference is the point's index in segment.points.       *)
(***************************************************************************)
EXTENDS Integers, Sequences, FiniteSets, TLC

VARIABLES
    pc,         \* main()'s position: "load", "generate", "save", "print", "handler",
                \* "exit"; for a direct call of a helper: "caller", "returned"
    infile,     \* the file at args.input_gpx
    outfile,    \* the file at args.output_gpx
    gpx,        \* gpx_data, the parsed (and later mutated) document
    waypoints,  \* the list returned by generate_waypoints
    exc,        \* the exception in flight
    stdout,     \* the lines printed so far
    exitcode,   \* the process's exit status once main() has returned
    geodFault,  \* once generate_waypoints has run: the iteration of the distance
                \* loop in which geod.inv raised, 0 when it did not
    call        \* the last direct call of a helper and what it returned

vars == <<pc, infile, outfile, gpx, waypoints, exc, stdout, exitcode, geodFault, call>>

-----------------------------------------------------------------------------
(* Bounds and input sets *)

MaxPoints == 3
MetresPerKm == 1000

None == <<>>
Some(v) == <<v>>

\* Longitudes, as arc length along the equator in metres: 0 m, 1 km and 2.4 km.
Lons == {0, 1000, 2400}
Lats == {0}
Eles == {None, Some(0), Some(5), Some(10)}

Points == [latitude : Lats, longitude : Lons, elevation : Eles]

RECURSIVE SeqsUpTo(_, _)
SeqsUpTo(S, n) ==
    IF n = 0 THEN {<<>>}
    ELSE LET shorter == SeqsUpTo(S, n - 1)
         IN  shorter \cup {Append(s, x) : s \in {t \in shorter : Len(t) = n - 1}, x \in S}

PointSeqs == SeqsUpTo(Points, MaxPoints)

\* Survey tracks: one point more than MaxPoints, all with an elevation, over
\* longitudes whose pair distances, 30 m, 282 m and 688 m among them, are not
\* binary fractions of a kilometre, so that their sum is rounded.
SurveyLons == {0, 30, 312, 1000}
SurveyPoints == [latitude : Lats, longitude : SurveyLons, elevation : {Some(0)}]
SurveySeqs == {s \in SeqsUpTo(SurveyPoints, MaxPoints + 1) : Len(s) = MaxPoints + 1}

Prefix == "RIDGE"
InputPath == "in.gpx"
OutputPath == "out.gpx"

\* a segment and a track other than the first, and a waypoint already in the input
OtherSegment == <<[latitude |-> 0, longitude |-> 5, elevation |-> Some(7)]>>
OtherTrack == [name |-> Some("Other"), comment |-> Some("keep"),
               segments |-> <<OtherSegment, <<>>>>]
OldWaypoint == [latitude |-> 0, longitude |-> 0, elevation |-> None, name |-> "OLD_WPT"]

\* documents whose first track has a first segment
DocOf(points, rich) ==
    IF rich
    THEN [tracks |-> <<[name |-> Some("Morning hike"), comment |-> Some("raw"),
                        segments |-> <<points, OtherSegment>>], OtherTrack>>,
          waypoints |-> <<OldWaypoint>>]
    ELSE [tracks |-> <<[name |-> None, comment |-> None, segments |-> <<points>>]>>,
          waypoints |-> <<>>]

TrackDocs ==
    {DocOf(points, rich) : points \in PointSeqs, rich \in BOOLEAN}
    \cup {DocOf(points, FALSE) : points \in SurveySeqs}

\* documents without a track, or whose first track has no segment
NoTrackDocs ==
    {[tracks |-> <<>>, waypoints |-> <<>>],
     [tracks |-> <<[name |-> Some("Morning hike"), comment |-> Some("raw"),
                    segments |-> <<>>]>>, waypoints |-> <<OldWaypoint>>]}

Docs == TrackDocs \cup NoTrackDocs

Exception(type, msg) == [type |-> type, msg |-> msg]

\* not gpx.tracks or not gpx.tracks[0].segments
NoTrackData(doc) == doc.tracks = <<>> \/ doc.tracks[1].segments = <<>>

\* the iterations of the distance loop over a document's points in which
\* geod.inv may raise; 0 for never
FailPoints(doc) ==
    IF NoTrackData(doc) \/ doc.tracks[1].segments[1] = <<>> THEN {0}
    ELSE 0..(Len(doc.tracks[1].segments[1]) - 1)

-----------------------------------------------------------------------------
(* Python floats: IEEE 754 binary64, computed exactly *)

\* A natural number of any size, as its digits in base LimbBase, least
\* significant first, without leading zeros; zero is <<>>.
LimbBits == 15
LimbBase == 2 ^ LimbBits

\* A float x >= 0 is the natural number x * 2^FracBits.  A whole number of
\* metres divided by 1000, and every sum and product of such quotients, is a
\* multiple of 2^-FracBits, and the quotient has more than MantissaBits bits
\* before it is rounded.
FracLimbs == 5
FracBits == FracLimbs * LimbBits
\* the significand of a binary64
MantissaBits == 53

RECURSIVE BFromInt(_)
BFromInt(n) == IF n = 0 THEN <<>> ELSE <<n % LimbBase>> \o BFromInt(n \div LimbBase)

RECURSIVE BToInt(_)
BToInt(a) == IF a = <<>> THEN 0 ELSE a[1] + LimbBase * BToInt(Tail(a))

RECURSIVE BNorm(_)
BNorm(a) ==
    IF a = <<>> THEN <<>>
    ELSE IF a[Len(a)] = 0 THEN BNorm(SubSeq(a, 1, Len(a) - 1))
    ELSE a

Limb(a, i) == IF i <= Len(a) THEN a[i] ELSE 0

RECURSIVE BAddFrom(_, _, _, _)
BAddFrom(a, b, i, carry) ==
    IF i > Len(a) /\ i > Len(b)
    THEN IF carry = 0 THEN <<>> ELSE <<carry>>
    ELSE LET s == Limb(a, i) + Limb(b, i) + carry
         IN  <<s % LimbBase>> \o BAddFrom(a, b, i + 1, s \div LimbBase)

BAdd(a, b) == BAddFrom(a, b, 1, 0)

\* a * m for a small natural m
RECURSIVE BMulFrom(_, _, _, _)
BMulFrom(a, m, i, carry) ==
    IF i > Len(a) THEN BFromInt(carry)
    ELSE LET s == a[i] * m + carry
         IN  <<s % LimbBase>> \o BMulFrom(a, m, i + 1, s \div LimbBase)

BMulSmall(a, m) == IF m = 0 THEN <<>> ELSE BMulFrom(a, m, 1, 0)

\* a divided by a small natural m, from the top digit down:
\* <<the digits of the quotient below i + 1, the remainder>>
RECURSIVE BDivFrom(_, _, _, _)
BDivFrom(a, m, i, rem) ==
    IF i = 0 THEN <<<<>>, rem>>
    ELSE LET cur == rem * LimbBase + a[i]
             low == BDivFrom(a, m, i - 1, cur % m)
         IN  <<Append(low[1], cur \div m), low[2]>>

BDivSmall(a, m) ==
    LET r == BDivFrom(a, m, Len(a), 0)
    IN  <<BNorm(r[1]), r[2]>>

\* a <= b, from the top digit down
RECURSIVE BLeqFrom(_, _, _)
BLeqFrom(a, b, i) ==
    IF i = 0 THEN TRUE
    ELSE IF a[i] # b[i] THEN a[i] < b[i]
    ELSE BLeqFrom(a, b, i - 1)

BLeq(a, b) ==
    IF Len(a) # Len(b) THEN Len(a) < Len(b) ELSE BLeqFrom(a, b, Len(a))

\* the number of bits of a digit n < LimbBase
BitLenInt(n) == Cardinality({k \in 0..(LimbBits - 1) : 2 ^ k <= n})

BitLen(a) == IF a = <<>> THEN 0 ELSE LimbBits * (Len(a) - 1) + BitLenInt(a[Len(a)])

\* 2^t
BPow2(t) ==
    [i \in 1..(t \div LimbBits + 1) |->
        IF i = t \div LimbBits + 1 THEN 2 ^ (t % LimbBits) ELSE 0]

\* bit t of a, bit 0 being the least significant
Bit(a, t) == (Limb(a, t \div LimbBits + 1) \div (2 ^ (t % LimbBits))) % 2

\* a mod 2^t # 0
LowBitsSet(a, t) ==
    \/ \E i \in 1..Len(a) : i <= t \div LimbBits /\ a[i] # 0
    \/ Limb(a, t \div LimbBits + 1) % (2 ^ (t % LimbBits)) # 0

\* a - a mod 2^t, not normalised
ClearLow(a, t) ==
    [i \in 1..Len(a) |->
        IF i <= t \div LimbBits THEN 0
        ELSE IF i = t \div LimbBits + 1 THEN a[i] - (a[i] % (2 ^ (t % LimbBits)))
        ELSE a[i]]

\* round to nearest, ties to even, at bit t > 0: the multiple of 2^t nearest
\* to a + f, where 0 <= f < 1 is a discarded fraction and sticky says f > 0
RoundAt(a, sticky, t) ==
    LET up == /\ Bit(a, t - 1) = 1
              /\ (sticky \/ LowBitsSet(a, t - 1) \/ Bit(a, t) = 1)
    IN  IF up THEN BAdd(ClearLow(a, t), BPow2(t)) ELSE BNorm(ClearLow(a, t))

\* the binary64 nearest to a + f: MantissaBits significant bits are kept
RoundFloat(a, sticky) ==
    LET bits == BitLen(a)
    IN  IF bits <= MantissaBits THEN a ELSE RoundAt(a, sticky, bits - MantissaBits)

\* float(n) for a natural n
FloatOf(n) == IF n = 0 THEN <<>> ELSE [i \in 1..FracLimbs |-> 0] \o BFromInt(n)

\* x + y
FloatAdd(x, y) == RoundFloat(BAdd(x, y), FALSE)

\* x * m and x / m for a small natural m
FloatMul(x, m) == RoundFloat(BMulSmall(x, m), FALSE)
FloatDiv(x, m) ==
    LET r == BDivSmall(x, m)
    IN  RoundFloat(r[1], r[2] # 0)

\* int(x): truncation
FloatToInt(x) == IF Len(x) <= FracLimbs THEN 0 ELSE BToInt(SubSeq(x, FracLimbs + 1, Len(x)))

\* x >= y
FloatGeq(x, y) == BLeq(y, x)

-----------------------------------------------------------------------------
(* calculate_distance *)

Abs(x) == IF x < 0 THEN -x ELSE x

\* geod.inv(lon1, lat1, lon2, lat2)[2]: the surface distance in metres, a float,
\* here along the equator
GeodInv(p, q) == FloatOf(Abs(q.longitude - p.longitude))

\* a slip: the step, not the running total, is appended
RECURSIVE DistanceLoop_AppendsStep(_, _)
DistanceLoop_AppendsStep(points, i) ==
    IF i = 0 THEN <<FloatOf(0), <<FloatOf(0)>>>>
    ELSE LET before == DistanceLoop_AppendsStep(points, i - 1)
             distance == GeodInv(points[i], points[i + 1])
             step == FloatDiv(distance, MetresPerKm)
         IN  <<FloatAdd(before[1], step), Append(before[2], step)>>

\* the loop of lines 56-62: the state after iterations 1..i (Python index),
\* as <<total_distance, distances>>; total_distance += distance / 1000 rounds
\* the quotient and then the sum
RECURSIVE DistanceLoop(_, _)
DistanceLoop(points, i) ==
    IF i = 0 THEN <<FloatOf(0), <<FloatOf(0)>>>>
    ELSE LET before == DistanceLoop(points, i - 1)
             distance == GeodInv(points[i], points[i + 1])
             total_distance == FloatAdd(before[1], FloatDiv(distance, MetresPerKm))
         IN  <<total_distance, Append(before[2], total_distance)>>

\* failAt = 0: geod.inv never raises; failAt = i: it raises in iteration i
calculate_distance(points, failAt) ==
    IF points = <<>>
    THEN [raised |-> TRUE, exc |-> Exception("ValueError", "No points found in the track.")]
    ELSE IF failAt \in 1..(Len(points) - 1)
    THEN [raised |-> TRUE,
          exc |-> Exception("RuntimeError", "Error calculating distance: geod")]
    ELSE LET r == DistanceLoop(points, Len(points) - 1)
         IN  [raised |-> FALSE, total_distance |-> r[1], distances |-> r[2]]

-----------------------------------------------------------------------------
(* find_extreme_points *)

HasElevation(p) == p.elevation # None
Elevation(p) == p.elevation[1]

\* [p for p in points if p.elevation is not None], as references (indices)
RECURSIVE ValidFrom(_, _)
ValidFrom(points, i) ==
    IF i > Len(points) THEN <<>>
    ELSE IF HasElevation(points[i]) THEN <<i>> \o ValidFrom(points, i + 1)
    ELSE ValidFrom(points, i + 1)

valid_points(points) == ValidFrom(points, 1)

\* a slip: an equal element replaces the running best, so the last one wins
Better_NonStrict(isMax, candidate, best) ==
    IF isMax THEN candidate >= best ELSE candidate <= best

\* Python's max(seq, key=...) and min(seq, key=...): the running best is replaced
\* only by a strictly better element, so the first of equal elements is kept
Better(isMax, candidate, best) == IF isMax THEN candidate > best ELSE candidate < best

RECURSIVE Extreme(_, _, _, _, _)
Extreme(points, valid, isMax, j, best) ==
    IF j > Len(valid) THEN best
    ELSE IF Better(isMax, Elevation(points[valid[j]]), Elevation(points[best]))
    THEN Extreme(points, valid, isMax, j + 1, valid[j])
    ELSE Extreme(points, valid, isMax, j + 1, best)

find_extreme_points(points) ==
    LET valid == valid_points(points)
    IN  IF valid = <<>>
        THEN [raised |-> TRUE,
              exc |-> Exception("ValueError", "No valid elevation data found.")]
        ELSE [raised |-> FALSE,
              highest |-> Extreme(points, valid, TRUE, 2, valid[1]),
              lowest |-> Extreme(points, valid, FALSE, 2, valid[1])]

-----------------------------------------------------------------------------
(* find_halfway_point *)

\* a slip: > for >=
ReachesHalf_Strict(distance, total_distance) ==
    ~FloatGeq(FloatDiv(total_distance, 2), distance)

\* distance >= total_distance / 2
ReachesHalf(distance, total_distance) ==
    FloatGeq(distance, FloatDiv(total_distance, 2))

\* for i, distance in enumerate(distances): the first index that passes, or 0
RECURSIVE HalfwayScan(_, _, _)
HalfwayScan(distances, total_distance, i) ==
    IF i > Len(distances) THEN 0
    ELSE IF ReachesHalf(distances[i], total_distance) THEN i
    ELSE HalfwayScan(distances, total_distance, i + 1)

find_halfway_point(points, distances, total_distance) ==
    IF points = <<>>
    THEN [raised |-> TRUE, exc |-> Exception("ValueError", "No points found in the track.")]
    ELSE LET i == HalfwayScan(distances, total_distance, 1)
         IN  IF i = 0 THEN [raised |-> FALSE, point |-> Len(points)]
             ELSE IF i > Len(points)
             THEN [raised |-> TRUE,
                   exc |-> Exception("RuntimeError",
                                     "Error finding halfway point: list index out of range")]
             ELSE [raised |-> FALSE, point |-> i]

-----------------------------------------------------------------------------
(* generate_waypoints: kilometre markers *)

\* int(total_distance * 1000): the product is rounded to a float, then truncated
IntMetres(total_distance) == FloatToInt(FloatMul(total_distance, MetresPerKm))

\* range(start, stop, step) for a positive step, as a sequence
PyRange(start, stop, step) ==
    LET n == IF stop > start THEN (stop - start + step - 1) \div step ELSE 0
    IN  [j \in 1..n |-> start + (j - 1) * step]

\* a slip: the stop of the range without its "+ 1"
MarkerRange_Exclusive(total_distance) ==
    PyRange(MetresPerKm, IntMetres(total_distance), MetresPerKm)

MarkerRange(total_distance) ==
    PyRange(MetresPerKm, IntMetres(total_distance) + 1, MetresPerKm)

\* a slip: > for >=
ReachesMarker_Strict(distance, dist_marker) ==
    ~FloatGeq(FloatOf(dist_marker), FloatMul(distance, MetresPerKm))

\* distance * 1000 >= dist_marker, the product rounded to a float
ReachesMarker(distance, dist_marker) ==
    FloatGeq(FloatMul(distance, MetresPerKm), FloatOf(dist_marker))

RECURSIVE MarkerScan(_, _, _)
MarkerScan(distances, dist_marker, i) ==
    IF i > Len(distances) THEN 0
    ELSE IF ReachesMarker(distances[i], dist_marker) THEN i
    ELSE MarkerScan(distances, dist_marker, i + 1)

KmLabel(prefix, dist_marker) == prefix \o "_KM" \o ToString(dist_marker \div MetresPerKm)

\* the outer loop of lines 145-149 over markers[m..]: the waypoints appended
RECURSIVE KmMarkers(_, _, _, _)
KmMarkers(prefix, distances, markers, m) ==
    IF m > Len(markers) THEN <<>>
    ELSE LET i == MarkerScan(distances, markers[m], 1)
             rest == KmMarkers(prefix, distances, markers, m + 1)
         IN  IF i = 0 THEN rest
             ELSE <<[name |-> KmLabel(prefix, markers[m]), point |-> i]>> \o rest

-----------------------------------------------------------------------------
(* generate_waypoints: telemetry *)

\* a slip: the difference taken without max(0, ...)
Max0_NoClamp(x) == x

Max0(x) == IF x > 0 THEN x ELSE 0

BothPresent(points, i) == HasElevation(points[i]) /\ HasElevation(points[i - 1])

\* sum(max(0, e[i] - e[i-1]) for i in range(1, len(points)) if both present),
\* over the pairs ending at indices 2..i
RECURSIVE AscentUpTo(_, _)
AscentUpTo(points, i) ==
    IF i < 2 THEN 0
    ELSE AscentUpTo(points, i - 1)
         + (IF BothPresent(points, i)
            THEN Max0(Elevation(points[i]) - Elevation(points[i - 1])) ELSE 0)

RECURSIVE DescentUpTo(_, _)
DescentUpTo(points, i) ==
    IF i < 2 THEN 0
    ELSE DescentUpTo(points, i - 1)
         + (IF BothPresent(points, i)
            THEN Max0(Elevation(points[i - 1]) - Elevation(points[i])) ELSE 0)

Ascent(points) == AscentUpTo(points, Len(points))
Descent(points) == DescentUpTo(points, Len(points))

\* min(..., default=None) and max(..., default=None) over the present elevations
RECURSIVE AltitudeFold(_, _, _, _)
AltitudeFold(points, isMax, i, best) ==
    IF i > Len(points) THEN best
    ELSE IF ~HasElevation(points[i]) THEN AltitudeFold(points, isMax, i + 1, best)
    ELSE IF best = None \/ Better(isMax, Elevation(points[i]), best[1])
    THEN AltitudeFold(points, isMax, i + 1, points[i].elevation)
    ELSE AltitudeFold(points, isMax, i + 1, best)

min_altitude(points) == AltitudeFold(points, FALSE, 1, None)
max_altitude(points) == AltitudeFold(points, TRUE, 1, None)

\* f"{total_distance:.2f}": the float's exact binary value rounded to
\* hundredths, an exact half going to the even neighbour
Hundredths(total_distance) ==
    FloatToInt(RoundAt(BMulSmall(total_distance, 100), FALSE, FracBits))

Format2f(total_distance) ==
    LET h == Hundredths(total_distance)
    IN  ToString(h \div 100) \o "." \o ToString((h % 100) \div 10) \o ToString(h % 10)

\* f"{x:.0f}" of a whole number
Format0f(x) == ToString(x)

\* the f-string of lines 168-175 over the locals it reads
telemetry_str(total_distance, num_points, ascent, descent, min_alt, max_alt) ==
    "Total Distance: " \o Format2f(total_distance) \o " km\n"
    \o "Number of Points: " \o ToString(num_points) \o "\n"
    \o "Total Ascent: " \o Format0f(ascent) \o " m\n"
    \o "Total Descent: " \o Format0f(descent) \o " m\n"
    \o "Minimum Altitude: " \o Format0f(min_alt) \o " m\n"
    \o "Maximum Altitude: " \o Format0f(max_alt) \o " m"

-----------------------------------------------------------------------------
(* generate_waypoints *)

\* a slip: the comment is reset along with the name
Rename_ClearsComment(doc, prefix) ==
    [doc EXCEPT !.tracks[1].name = Some(prefix), !.tracks[1].comment = None]

\* track.name = prefix
Rename(doc, prefix) == [doc EXCEPT !.tracks[1].name = Some(prefix)]

\* track.comment = telemetry_str
SetComment(doc, text) == [doc EXCEPT !.tracks[1].comment = Some(text)]

\* [(f"{prefix}_TH", points[0]), (f"{prefix}_TE", points[-1])]
HeadAndEnd(prefix, points) ==
    <<[name |-> prefix \o "_TH", point |-> 1],
      [name |-> prefix \o "_TE", point |-> Len(points)]>>

\* the result carries the document as the call leaves it, also when it raises
generate_waypoints(doc, prefix, failAt) ==
    IF NoTrackData(doc)
    THEN [raised |-> TRUE, gpx |-> doc,
          exc |-> Exception("ValueError", "No valid track data found in GPX file.")]
    ELSE
    LET renamed == Rename(doc, prefix)
        points == doc.tracks[1].segments[1]
    IN
    IF points = <<>>
    THEN [raised |-> TRUE, gpx |-> renamed,
          exc |-> Exception("ValueError", "No track points available.")]
    ELSE
    LET d == calculate_distance(points, failAt) IN
    IF d.raised THEN [raised |-> TRUE, gpx |-> renamed, exc |-> d.exc]
    ELSE
    LET km == KmMarkers(prefix, d.distances, MarkerRange(d.total_distance), 1)
        e == find_extreme_points(points)
    IN
    IF e.raised THEN [raised |-> TRUE, gpx |-> renamed, exc |-> e.exc]
    ELSE
    LET h == find_halfway_point(points, d.distances, d.total_distance) IN
    IF h.raised THEN [raised |-> TRUE, gpx |-> renamed, exc |-> h.exc]
    ELSE IF min_altitude(points) = None \/ max_altitude(points) = None
    THEN [raised |-> TRUE, gpx |-> renamed,
          exc |-> Exception("ValueError",
                            "No valid elevation data found for telemetry statistics.")]
    ELSE [raised |-> FALSE,
          gpx |-> SetComment(renamed,
                             telemetry_str(d.total_distance, Len(points), Ascent(points),
                                           Descent(points), min_altitude(points)[1],
                                           max_altitude(points)[1])),
          waypoints |-> HeadAndEnd(prefix, points) \o km
                        \o <<[name |-> prefix \o "_HGH", point |-> e.highest],
                             [name |-> prefix \o "_LWT", point |-> e.lowest],
                             [name |-> prefix \o "_HLF", point |-> h.point]>>]

-----------------------------------------------------------------------------
(* The GPX text: gpxpy.parse and GPX.to_xml.  In the text an absent value is *)
(* an absent element, i.e. a record without that field.                      *)

Field(name, opt) == IF opt = None THEN <<>> ELSE name :> opt[1]
Get(r, name) == IF name \in DOMAIN r THEN Some(r[name]) ELSE None

XmlPoint(p) == [lat |-> p.latitude, lon |-> p.longitude] @@ Field("ele", p.elevation)
XmlWaypoint(w) == XmlPoint(w) @@ [name |-> w.name]
XmlSegment(seg) == [i \in 1..Len(seg) |-> XmlPoint(seg[i])]
XmlTrack(t) ==
    [trkseg |-> [i \in 1..Len(t.segments) |-> XmlSegment(t.segments[i])]]
    @@ Field("name", t.name) @@ Field("cmt", t.comment)

to_xml(doc) ==
    [wpt |-> [i \in 1..Len(doc.waypoints) |-> XmlWaypoint(doc.waypoints[i])],
     trk |-> [i \in 1..Len(doc.tracks) |-> XmlTrack(doc.tracks[i])]]

ParsePoint(x) == [latitude |-> x.lat, longitude |-> x.lon, elevation |-> Get(x, "ele")]
ParseWaypoint(x) == ParsePoint(x) @@ [name |-> x.name]
ParseSegment(xs) == [i \in 1..Len(xs) |-> ParsePoint(xs[i])]
ParseTrack(x) ==
    [name |-> Get(x, "name"), comment |-> Get(x, "cmt"),
     segments |-> [i \in 1..Len(x.trkseg) |-> ParseSegment(x.trkseg[i])]]

parse(xml) ==
    [tracks |-> [i \in 1..Len(xml.trk) |-> ParseTrack(xml.trk[i])],
     waypoints |-> [i \in 1..Len(xml.wpt) |-> ParseWaypoint(xml.wpt[i])]]

-----------------------------------------------------------------------------
(* load_gpx *)

\* file is [kind |-> "missing"], [kind |-> "undecodable"] (bytes that are not
\* UTF-8: read() raises UnicodeDecodeError, which is a ValueError),
\* [kind |-> "malformed"] (text that is not XML: gpxpy raises its own
\* exception) or [kind |-> "gpx", xml |-> x]
load_gpx(file, file_path) ==
    IF file.kind = "missing"
    THEN [raised |-> TRUE,
          exc |-> Exception("FileNotFoundError",
                            "Error: The file '" \o file_path \o "' was not found.")]
    ELSE IF file.kind = "undecodable"
    THEN [raised |-> TRUE,
          exc |-> Exception("ValueError",
                            "Error parsing GPX file: 'utf-8' codec can't decode byte 0xff "
                            \o "in position 0: invalid start byte")]
    ELSE IF file.kind = "malformed"
    THEN [raised |-> TRUE,
          exc |-> Exception("RuntimeError", "Error loading GPX file: syntax error")]
    ELSE IF NoTrackData(parse(file.xml))
    THEN [raised |-> TRUE,
          exc |-> Exception("ValueError",
                            "Error parsing GPX file: No valid track data found in GPX file.")]
    ELSE [raised |-> FALSE, gpx |-> parse(file.xml)]

-----------------------------------------------------------------------------
(* save_combined_gpx *)

\* a slip: only the processed track is carried over
CombinedTracks_FirstOnly(doc) == <<doc.tracks[1]>>

\* for track in gpx.tracks: combined_gpx.tracks.append(track)
CombinedTracks(doc) == [i \in 1..Len(doc.tracks) |-> doc.tracks[i]]

\* GPXWaypoint(latitude=..., longitude=..., elevation=..., name=name)
GPXWaypoint(point, name) ==
    [latitude |-> point.latitude, longitude |-> point.longitude,
     elevation |-> point.elevation, name |-> name]

CombinedWaypoints(doc, wps) ==
    [i \in 1..Len(wps) |-> GPXWaypoint(doc.tracks[1].segments[1][wps[i].point], wps[i].name)]

combined_gpx(doc, wps) ==
    [tracks |-> CombinedTracks(doc), waypoints |-> CombinedWaypoints(doc, wps)]

\* outcome: "ok"; "open_fails" (open() raises, the file is untouched);
\* "write_fails" (open() has truncated the file and write() raises)
save_combined_gpx(doc, wps, file, outcome) ==
    IF outcome = "ok"
    THEN [raised |-> FALSE, file |-> [kind |-> "gpx", xml |-> to_xml(combined_gpx(doc, wps))]]
    ELSE [raised |-> TRUE,
          file |-> IF outcome = "open_fails" THEN file ELSE [kind |-> "partial"],
          exc |-> Exception("RuntimeError", "Error saving combined GPX: " \o outcome)]

-----------------------------------------------------------------------------
(* main *)

\* the input file when load_gpx opens it: gone since validate_file_path saw it,
\* not text, not GPX, or the text of a document
InputFiles ==
    {[kind |-> "missing"], [kind |-> "undecodable"], [kind |-> "malformed"]}
    \cup {[kind |-> "gpx", xml |-> to_xml(d)] : d \in Docs}

OutputFiles == {[kind |-> "absent"], [kind |-> "old"]}

\* after parser.parse_args(): both validators have accepted their arguments
Init ==
    /\ pc = "load"
    /\ infile \in InputFiles
    /\ outfile \in OutputFiles
    /\ gpx = None
    /\ waypoints = None
    /\ exc = None
    /\ stdout = <<>>
    /\ exitcode = None
    /\ geodFault = None
    /\ call = None

\* gpx_data = load_gpx(args.input_gpx)
LoadGpx ==
    /\ pc = "load"
    /\ \E r \in {load_gpx(infile, InputPath)} :
           IF r.raised
           THEN /\ exc' = Some(r.exc)
                /\ pc' = "handler"
                /\ gpx' = gpx
           ELSE /\ gpx' = Some(r.gpx)
                /\ pc' = "generate"
                /\ exc' = exc
    /\ UNCHANGED <<infile, outfile, waypoints, stdout, exitcode, call, geodFault>>

\* a slip: the failure is swallowed and the run goes on with no waypoints
GenerateWaypoints_ContinuesOnError ==
    /\ pc = "generate"
    /\ \E failAt \in FailPoints(gpx[1]) :
         \E r \in {generate_waypoints(gpx[1], Prefix, failAt)} :
             /\ gpx' = Some(r.gpx)
             /\ geodFault' = Some(failAt)
             /\ waypoints' = IF r.raised THEN Some(<<>>) ELSE Some(r.waypoints)
             /\ pc' = "save"
             /\ exc' = exc
    /\ UNCHANGED <<infile, outfile, stdout, exitcode, call>>

\* waypoints = generate_waypoints(gpx_data, args.trail_prefix)
GenerateWaypoints ==
    /\ pc = "generate"
    /\ \E failAt \in FailPoints(gpx[1]) :
         \E r \in {generate_waypoints(gpx[1], Prefix, failAt)} :
             /\ gpx' = Some(r.gpx)
             /\ geodFault' = Some(failAt)
             /\ IF r.raised
                THEN /\ exc' = Some(r.exc)
                     /\ pc' = "handler"
                     /\ waypoints' = waypoints
                ELSE /\ waypoints' = Some(r.waypoints)
                     /\ pc' = "save"
                     /\ exc' = exc
    /\ UNCHANGED <<infile, outfile, stdout, exitcode, call>>

\* save_combined_gpx(gpx_data, waypoints, args.output_gpx)
SaveCombinedGpx ==
    /\ pc = "save"
    /\ \E outcome \in {"ok", "open_fails", "write_fails"} :
         \E r \in {save_combined_gpx(gpx[1], waypoints[1], outfile, outcome)} :
             /\ outfile' = r.file
             /\ IF r.raised
                THEN exc' = Some(r.exc) /\ pc' = "handler"
                ELSE exc' = exc /\ pc' = "print"
    /\ UNCHANGED <<infile, gpx, waypoints, stdout, exitcode, call, geodFault>>

\* print(f"GPX file with waypoints saved: {args.output_gpx}"), then main returns
PrintSuccess ==
    /\ pc = "print"
    /\ stdout' = Append(stdout, "GPX file with waypoints saved: " \o OutputPath)
    /\ pc' = "exit"
    /\ exitcode' = Some(0)
    /\ UNCHANGED <<infile, outfile, gpx, waypoints, exc, call, geodFault>>

\* except Exception as e: print(f"Unexpected error: {e}"), then main returns
HandleError ==
    /\ pc = "handler"
    /\ stdout' = Append(stdout, "Unexpected error: " \o exc[1].msg)
    /\ pc' = "exit"
    /\ exitcode' = Some(0)
    /\ UNCHANGED <<infile, outfile, gpx, waypoints, exc, call, geodFault>>

Next == LoadGpx \/ GenerateWaypoints \/ SaveCombinedGpx \/ PrintSuccess \/ HandleError

Spec == Init /\ [][Next]_vars

-----------------------------------------------------------------------------
(* The helpers called directly, as a caller of the module's functions does:  *)
(* the caller holds a parsed document and makes one call; `call` records the *)
(* function, its arguments and what it returned.                             *)

InitCalls ==
    /\ pc = "caller"
    /\ gpx \in {Some(d) : d \in Docs}
    /\ infile = [kind |-> "missing"]
    /\ outfile = [kind |-> "absent"]
    /\ waypoints = None
    /\ exc = None
    /\ stdout = <<>>
    /\ exitcode = None
    /\ geodFault = None
    /\ call = None

FirstSegment(doc) == doc.tracks[1].segments[1]

\* the totals a caller passes to find_halfway_point along with the cumulative
\* distances: the matching total, one kilometre above twice it, and half of it
TotalChoices(total_distance) ==
    {total_distance,
     FloatAdd(FloatMul(total_distance, 2), FloatOf(1)),
     FloatDiv(total_distance, 2)}

CallCalculateDistance ==
    /\ pc = "caller"
    /\ ~NoTrackData(gpx[1])
    /\ \E failAt \in FailPoints(gpx[1]) :
         call' = Some([fn |-> "calculate_distance", points |-> FirstSegment(gpx[1]),
                       result |-> calculate_distance(FirstSegment(gpx[1]), failAt)])
    /\ pc' = "returned"
    /\ UNCHANGED <<infile, outfile, gpx, waypoints, exc, stdout, exitcode, geodFault>>

CallFindExtremePoints ==
    /\ pc = "caller"
    /\ ~NoTrackData(gpx[1])
    /\ call' = Some([fn |-> "find_extreme_points", points |-> FirstSegment(gpx[1]),
                     result |-> find_extreme_points(FirstSegment(gpx[1]))])
    /\ pc' = "returned"
    /\ UNCHANGED <<infile, outfile, gpx, waypoints, exc, stdout, exitcode, geodFault>>

CallFindHalfwayPoint ==
    /\ pc = "caller"
    /\ ~NoTrackData(gpx[1])
    /\ \E d \in {calculate_distance(FirstSegment(gpx[1]), 0)} :
         LET points == FirstSegment(gpx[1])
             distances == IF d.raised THEN <<>> ELSE d.distances
         IN  \E total_distance \in TotalChoices(IF d.raised THEN FloatOf(0)
                                                  ELSE d.total_distance) :
               call' = Some([fn |-> "find_halfway_point", points |-> points,
                             distances |-> distances, total_distance |-> total_distance,
                             result |-> find_halfway_point(points, distances, total_distance)])
    /\ pc' = "returned"
    /\ UNCHANGED <<infile, outfile, gpx, waypoints, exc, stdout, exitcode, geodFault>>

CallGenerateWaypoints ==
    /\ pc = "caller"
    /\ \E failAt \in FailPoints(gpx[1]) :
         \E r \in {generate_waypoints(gpx[1], Prefix, failAt)} :
             /\ call' = Some([fn |-> "generate_waypoints", gpx |-> gpx[1], result |-> r])
             /\ gpx' = Some(r.gpx)
    /\ pc' = "returned"
    /\ UNCHANGED <<infile, outfile, waypoints, exc, stdout, exitcode, geodFault>>

NextCalls ==
    \/ CallCalculateDistance
    \/ CallFindExtremePoints
    \/ CallFindHalfwayPoint
    \/ CallGenerateWaypoints

SpecCalls == InitCalls /\ [][NextCalls]_vars

-----------------------------------------------------------------------------
(* Properties *)

Returned(fn) == call # None /\ call[1].fn = fn /\ ~call[1].result.raised

Least(S) == CHOOSE x \in S : \A y \in S : x <= y

\* x < y for floats
FloatLess(x, y) == ~FloatGeq(x, y)

\* the kilometres from points[i - 1] to points[i], as the float the program
\* divides the metres into
StepKm(points, i) ==
    FloatDiv(FloatOf(Abs(points[i].longitude - points[i - 1].longitude)), MetresPerKm)

\* the length in whole metres of the path through points[1..i], summed exactly
RECURSIVE PathMetres(_, _)
PathMetres(points, i) ==
    IF i <= 1 THEN 0
    ELSE PathMetres(points, i - 1) + Abs(points[i].longitude - points[i - 1].longitude)

\* C3: when calculate_distance returns, the cumulative distances are as long as
\* the points, start at exactly 0, never decrease, grow at each index by the
\* distance in kilometres between the two points, the sum being the float sum,
\* and end at exactly the returned total.
C3_CumulativeDistances ==
    Returned("calculate_distance") =>
        LET points == call[1].points
            c == call[1].result.distances
        IN  /\ points # <<>>
            /\ Len(c) = Len(points)
            /\ c[1] = FloatOf(0)
            /\ \A i \in 2..Len(c) :
                 /\ c[i] = FloatAdd(c[i - 1], StepKm(points, i))
                 /\ FloatGeq(c[i], c[i - 1])
            /\ c[Len(c)] = call[1].result.total_distance

\* a three-point track that goes out and comes back part of the way
C3_Witness ==
    /\ Returned("calculate_distance")
    /\ Len(call[1].points) = 3
    /\ FloatLess(FloatOf(0), call[1].result.distances[2])
    /\ FloatLess(call[1].result.distances[2], call[1].result.distances[3])
    /\ call[1].points[3].longitude < call[1].points[2].longitude

\* 30 m, 282 m and 688 m: the float sum ends below the kilometre they make
C3_WitnessRounded ==
    /\ Returned("calculate_distance")
    /\ PathMetres(call[1].points, Len(call[1].points)) = MetresPerKm
    /\ FloatLess(call[1].result.total_distance, FloatOf(1))

\* C4: find_extreme_points raises exactly when no point carries an elevation;
\* otherwise highest is the lowest-indexed point among those with the greatest
\* present elevation, lowest the lowest-indexed among those with the least, and
\* neither is a point without elevation.
C4_ExtremePoints ==
    (call # None /\ call[1].fn = "find_extreme_points") =>
        LET points == call[1].points
            r == call[1].result
            present == {i \in 1..Len(points) : points[i].elevation # None}
            top == {i \in present :
                      \A j \in present : points[j].elevation[1] <= points[i].elevation[1]}
            bottom == {i \in present :
                      \A j \in present : points[j].elevation[1] >= points[i].elevation[1]}
        IN  /\ r.raised <=> present = {}
            /\ ~r.raised => /\ r.highest = Least(top)
                            /\ r.lowest = Least(bottom)
            /\ [i \in 1..Len(points) |-> points[i].elevation] = <<Some(0), Some(10), Some(5)>>
                 => r.highest = 2 /\ r.lowest = 1

\* a point without elevation first, then the greatest elevation twice
C4_Witness ==
    /\ Returned("find_extreme_points")
    /\ [i \in 1..Len(call[1].points) |-> call[1].points[i].elevation]
         = <<None, Some(10), Some(10)>>
    /\ call[1].result.highest = 2
    /\ call[1].result.lowest = 2

\* C5: for a non-empty track and index-aligned distances, find_halfway_point
\* does not raise; it returns the lowest-indexed point whose cumulative distance
\* is at least half the total, and the last point when there is none.
C5_HalfwayPoint ==
    (call # None /\ call[1].fn = "find_halfway_point" /\ call[1].points # <<>>) =>
        LET points == call[1].points
            distances == call[1].distances
            r == call[1].result
            reached == {i \in 1..Len(distances) :
                          BLeq(call[1].total_distance, BAdd(distances[i], distances[i]))}
        IN  /\ Len(distances) = Len(points)
            /\ ~r.raised
            /\ r.point = IF reached = {} THEN Len(points) ELSE Least(reached)

\* the fallback: no cumulative distance reaches half of the total passed
C5_Witness ==
    /\ Returned("find_halfway_point")
    /\ Len(call[1].points) = 3
    /\ \A i \in 1..3 : FloatLess(FloatMul(call[1].distances[i], 2), call[1].total_distance)
    /\ call[1].result.point = 3

\* the scan's own hit: the middle point of three is the first past the half
C5_WitnessScan ==
    /\ Returned("find_halfway_point")
    /\ Len(call[1].points) = 3
    /\ call[1].total_distance = call[1].distances[3]
    /\ call[1].result.point = 2

\* single-point and zero-length tracks return their first point
C5_WitnessZeroLength ==
    /\ Returned("find_halfway_point")
    /\ Len(call[1].points) = 2
    /\ call[1].total_distance = FloatOf(0)
    /\ call[1].result.point = 1

-----------------------------------------------------------------------------
(* Properties of a run of main *)

\* the points of the first segment of the first track of the loaded document
TrackPoints == gpx[1].tracks[1].segments[1]

\* the cumulative distances in kilometres of points[1..i], accumulated in
\* floats pair by pair
RECURSIVE Cumulative(_, _)
Cumulative(points, i) ==
    IF i <= 1 THEN <<FloatOf(0)>>
    ELSE LET before == Cumulative(points, i - 1)
         IN  Append(before, FloatAdd(before[i - 1], StepKm(points, i)))

\* the total distance in kilometres
TotalKm(points) == Cumulative(points, Len(points))[Len(points)]

\* floor(x) of a float
Floor(x) == FloatToInt(x)

Names(wps) == [i \in 1..Len(wps) |-> wps[i].name]

KmName(k) == Prefix \o "_KM" \o ToString(k)

\* generate_waypoints has just returned its list to main
JustGenerated == pc = "save" /\ waypoints # None

\* C1: the labels returned by generate_waypoints are, in this order, TH, TE,
\* KM1..KMn with n the whole kilometres of the total distance, HGH, LWT, HLF;
\* they are n + 5 pairwise distinct labels, TH is bound to the first point and
\* TE to the last point of the first segment.
C1_LabelOrder ==
    JustGenerated =>
        LET wps == waypoints[1]
            n == Floor(TotalKm(TrackPoints))
        IN  /\ Names(wps) = <<Prefix \o "_TH", Prefix \o "_TE">>
                            \o [k \in 1..n |-> KmName(k)]
                            \o <<Prefix \o "_HGH", Prefix \o "_LWT", Prefix \o "_HLF">>
            /\ Len(wps) = n + 5
            /\ \A i, j \in 1..Len(wps) : i # j => wps[i].name # wps[j].name
            /\ wps[1].point = 1
            /\ wps[2].point = Len(TrackPoints)

\* three kilometre markers on a track that turns back on itself
C1_Witness ==
    /\ JustGenerated
    /\ Len(waypoints[1]) = 8
    /\ Len(TrackPoints) = 3
    /\ TrackPoints[3].longitude < TrackPoints[2].longitude
    /\ waypoints[1][5].name = "RIDGE_KM3"

\* C2: for each k from 1 to the whole kilometres of the total distance, and for
\* no other k, there is one waypoint KMk; it is bound to the lowest-indexed
\* point whose cumulative distance is at least k km.  A total on a kilometre
\* boundary has that boundary's marker; a total of 2.4 km has KM1 and KM2 only.
\* The total and the cumulative distances are the floats the program computes.
C2_KmMarkers ==
    JustGenerated =>
        LET wps == waypoints[1]
            points == TrackPoints
            c == Cumulative(points, Len(points))
            total == c[Len(points)]
            n == Floor(total)
        IN  /\ \A j \in 1..Len(wps) : \A k \in 1..(n + 2) :
                 wps[j].name = KmName(k) <=> (k <= n /\ j = k + 2)
            /\ \A k \in 1..n :
                 LET i == wps[k + 2].point
                 IN  /\ FloatGeq(c[i], FloatOf(k))
                     /\ \A j \in 1..(i - 1) : FloatLess(c[j], FloatOf(k))
            /\ total = FloatOf(n) /\ n > 0 => wps[2 + n].name = KmName(n)
            /\ total = FloatDiv(FloatOf(24), 10)
                 => /\ wps[3].name = "RIDGE_KM1"
                    /\ wps[4].name = "RIDGE_KM2"
                    /\ \A j \in 1..Len(wps) : wps[j].name # "RIDGE_KM3"

\* a total of 2.4 km over three points: KM1 at the second, KM2 at the third
C2_Witness ==
    /\ JustGenerated
    /\ Len(TrackPoints) = 3
    /\ TotalKm(TrackPoints) = FloatDiv(FloatOf(24), 10)
    /\ waypoints[1][3] = [name |-> "RIDGE_KM1", point |-> 2]
    /\ waypoints[1][4] = [name |-> "RIDGE_KM2", point |-> 3]
    /\ Len(waypoints[1]) = 7

\* a total of exactly 2 km: KM2 is there, bound to the last point
C2_WitnessBoundary ==
    /\ JustGenerated
    /\ TotalKm(TrackPoints) = FloatOf(2)
    /\ waypoints[1][4] = [name |-> "RIDGE_KM2", point |-> 3]

\* 30 m, 282 m and 688 m make a kilometre, but the float total is just below
\* 1 and there is no KM1
C2_WitnessRounded ==
    /\ JustGenerated
    /\ PathMetres(TrackPoints, Len(TrackPoints)) = MetresPerKm
    /\ FloatLess(TotalKm(TrackPoints), FloatOf(1))
    /\ Len(waypoints[1]) = 5


\* the elevation gained and lost over the pair of points (i - 1, i)
Gain(points, i) ==
    IF points[i].elevation = None \/ points[i - 1].elevation = None THEN 0
    ELSE IF points[i].elevation[1] > points[i - 1].elevation[1]
    THEN points[i].elevation[1] - points[i - 1].elevation[1] ELSE 0

Loss(points, i) ==
    IF points[i].elevation = None \/ points[i - 1].elevation = None THEN 0
    ELSE IF points[i - 1].elevation[1] > points[i].elevation[1]
    THEN points[i - 1].elevation[1] - points[i].elevation[1] ELSE 0

\* the sums of the gains and of the losses over a set of pairs
RECURSIVE SumGain(_, _)
SumGain(points, S) ==
    IF S = {} THEN 0
    ELSE LET i == CHOOSE x \in S : TRUE
         IN  Gain(points, i) + SumGain(points, S \ {i})

RECURSIVE SumLoss(_, _)
SumLoss(points, S) ==
    IF S = {} THEN 0
    ELSE LET i == CHOOSE x \in S : TRUE
         IN  Loss(points, i) + SumLoss(points, S \ {i})

Pairs(points) == 2..Len(points)

Fill(points, i, v) == [points EXCEPT ![i].elevation = Some(v)]

Between(a, b) == IF a <= b THEN a..b ELSE b..a

\* C6: the ascent and descent written into the comment are the sums of the
\* gains and of the losses over the consecutive pairs with both elevations
\* present, a pair with a missing elevation adding 0 to both; giving a point
\* without elevation a value between its neighbours' elevations decreases
\* neither sum.  Elevations 0, 10, 5 give ascent 10 and descent 5.
C6_AscentDescent ==
    JustGenerated =>
        LET points == TrackPoints
            ascent == SumGain(points, Pairs(points))
            descent == SumLoss(points, Pairs(points))
        IN  /\ gpx[1].tracks[1].comment
                 = Some(telemetry_str(TotalKm(points), Len(points),
                                      ascent, descent,
                                      min_altitude(points)[1], max_altitude(points)[1]))
            /\ Ascent(points) = ascent /\ Descent(points) = descent
            /\ [i \in 1..Len(points) |-> points[i].elevation] = <<Some(0), Some(10), Some(5)>>
                 => Ascent(points) = 10 /\ Descent(points) = 5
            /\ \A i \in 2..(Len(points) - 1) :
                 (/\ points[i].elevation = None
                  /\ points[i - 1].elevation # None
                  /\ points[i + 1].elevation # None)
                 => \A v \in Between(points[i - 1].elevation[1], points[i + 1].elevation[1]) :
                      /\ Ascent(Fill(points, i, v)) >= Ascent(points)
                      /\ Descent(Fill(points, i, v)) >= Descent(points)

\* a climb across a point without elevation counts for nothing until it is filled
C6_Witness ==
    /\ JustGenerated
    /\ [i \in 1..Len(TrackPoints) |-> TrackPoints[i].elevation] = <<Some(0), None, Some(10)>>
    /\ Ascent(TrackPoints) = 0
    /\ Ascent(Fill(TrackPoints, 2, 5)) = 10

\* the elevations 0, 10, 5
C6_WitnessScenario ==
    /\ JustGenerated
    /\ [i \in 1..Len(TrackPoints) |-> TrackPoints[i].elevation] = <<Some(0), Some(10), Some(5)>>
    /\ Ascent(TrackPoints) = 10
    /\ Descent(TrackPoints) = 5


\* the document in the input file, as gpxpy reads it
InputDoc == parse(infile.xml)

Readable == infile.kind = "gpx" /\ ~NoTrackData(InputDoc)

InputPoints == InputDoc.tracks[1].segments[1]

NoElevations(points) == \A i \in 1..Len(points) : points[i].elevation = None

EmptyTrackError == Exception("ValueError", "No track points available.")
NoElevationError == Exception("ValueError", "No valid elevation data found.")
DistanceError == Exception("RuntimeError", "Error calculating distance: geod")

Untouched(file) == file.kind \in {"absent", "old"}

\* what C8 has in common with its amendment: the exception leaves
\* generate_waypoints, so no waypoint list is returned, save_combined_gpx is
\* never entered, the output file is neither created nor overwritten, and the
\* one line printed is the error
FailsBeforeOutput ==
    /\ pc \in {"load", "generate", "handler", "exit"}
    /\ waypoints = None
    /\ Untouched(outfile)
    /\ pc \in {"handler", "exit"} => exc # None /\ geodFault # None
    /\ pc = "exit" => stdout = <<"Unexpected error: " \o exc[1].msg>>

\* C8 as stated: when the first segment has no point the run fails with the
\* empty-track error, and when it has points but none with an elevation the
\* run fails with the no-elevation error; either way the failure precedes any
\* output.
C8_NoElevationErrorAlways ==
    (Readable /\ (InputPoints = <<>> \/ NoElevations(InputPoints))) =>
        /\ FailsBeforeOutput
        /\ pc \in {"handler", "exit"} =>
             /\ InputPoints = <<>> => exc[1] = EmptyTrackError
             /\ InputPoints # <<>> => exc[1] = NoElevationError

\* C8, amended: when the first segment has no point the run fails with the
\* empty-track error; when it has points but none with an elevation the run
\* fails with the no-elevation error if geod.inv raised in no iteration of the
\* distance loop, and with the distance error if it raised in one, which takes
\* two points or more.  Either way the failure precedes any output.
C8_FailsBeforeOutput ==
    (Readable /\ (InputPoints = <<>> \/ NoElevations(InputPoints))) =>
        /\ FailsBeforeOutput
        /\ pc \in {"handler", "exit"} =>
             /\ InputPoints = <<>> => exc[1] = EmptyTrackError /\ geodFault = Some(0)
             /\ InputPoints # <<>> =>
                  /\ geodFault = Some(0) => exc[1] = NoElevationError
                  /\ geodFault # Some(0) =>
                       /\ exc[1] = DistanceError
                       /\ geodFault[1] \in 1..(Len(InputPoints) - 1)

\* three points without elevation: the run has ended on the no-elevation error
\* and there is still no output file
C8_Witness ==
    /\ Readable
    /\ Len(InputPoints) = 3
    /\ NoElevations(InputPoints)
    /\ pc = "exit"
    /\ geodFault = Some(0)
    /\ exc = Some(NoElevationError)
    /\ outfile.kind = "absent"

\* three points without elevation and geod.inv raising on the second pair: the
\* run has ended on the distance error, the old output file is still there
C8_WitnessDistance ==
    /\ Readable
    /\ Len(InputPoints) = 3
    /\ NoElevations(InputPoints)
    /\ pc = "exit"
    /\ geodFault = Some(2)
    /\ exc = Some(DistanceError)
    /\ outfile.kind = "old"

\* an empty segment: the run has ended on the empty-track error, the old
\* output file is still there
C8_WitnessEmpty ==
    /\ Readable
    /\ InputPoints = <<>>
    /\ pc = "exit"
    /\ exc = Some(EmptyTrackError)
    /\ outfile.kind = "old"

Succeeded == pc = "print" \/ (pc = "exit" /\ exc = None)

\* C9: after a successful run the output holds the input's tracks in the same
\* order, each with the segments and points it had in the input; tracks after
\* the first are identical, the first differs only in its name, now the prefix,
\* and its comment, now the telemetry block; and the output's waypoints are
\* the generated labels in order, each with the latitude, longitude and
\* elevation of the point it labels, and nothing else.
C9_RoundTrip ==
    Succeeded =>
        /\ outfile.kind = "gpx"
        /\ LET in == infile.xml
               out == outfile.xml
               wps == waypoints[1]
           IN  /\ Len(out.trk) = Len(in.trk)
               /\ \A i \in 1..Len(in.trk) : out.trk[i].trkseg = in.trk[i].trkseg
               /\ \A i \in 2..Len(in.trk) : out.trk[i] = in.trk[i]
               /\ DOMAIN out.trk[1] = {"trkseg", "name", "cmt"}
               /\ out.trk[1].name = Prefix
               /\ Some(out.trk[1].cmt) = gpx[1].tracks[1].comment
               /\ Len(out.wpt) = Len(wps)
               /\ \A j \in 1..Len(wps) :
                    out.wpt[j] = in.trk[1].trkseg[1][wps[j].point] @@ [name |-> wps[j].name]

\* a document with a second track, a second segment and a waypoint of its own,
\* some of its points without elevation, written out with seven waypoints
C9_Witness ==
    /\ pc = "exit"
    /\ exc = None
    /\ outfile.kind = "gpx"
    /\ Len(infile.xml.trk) = 2
    /\ Len(infile.xml.wpt) = 1
    /\ Len(outfile.xml.wpt) = 7
    /\ \E i \in 1..3 : "ele" \notin DOMAIN outfile.xml.trk[1].trkseg[1][i]
    /\ \E j \in 1..7 : "ele" \notin DOMAIN outfile.xml.wpt[j]

\* C7: at the end of a run the success line is printed exactly when the three
\* stages succeeded; when a stage failed an error line is printed instead and
\* the exit status is not zero; when all succeeded the exit status is zero.
C7_RunOutcome ==
    pc = "exit" =>
        LET success == "GPX file with waypoints saved: " \o OutputPath
            staged == gpx # None /\ waypoints # None /\ outfile.kind = "gpx"
        IN  /\ (stdout = <<success>>) <=> (exc = None /\ staged)
            /\ exc # None => /\ stdout = <<"Unexpected error: " \o exc[1].msg>>
                             /\ exitcode # Some(0)
            /\ exc = None => exitcode = Some(0)

\* what the code does keep of C7: one line is printed, the success line
\* exactly when the three stages succeeded and the error line otherwise
C7_PrintedOutcome ==
    pc = "exit" =>
        LET success == "GPX file with waypoints saved: " \o OutputPath
            staged == gpx # None /\ waypoints # None /\ outfile.kind = "gpx"
        IN  /\ (stdout = <<success>>) <=> (exc = None /\ staged)
            /\ exc # None => stdout = <<"Unexpected error: " \o exc[1].msg>>
            /\ exc = None => staged

-----------------------------------------------------------------------------
(* Properties of a direct call of generate_waypoints *)

\* C10: when generate_waypoints raises, the first track's comment is what it
\* was before the call and no waypoint list is returned; the document is
\* untouched when there is no track or segment, and on every later raising
\* path it differs from the one passed in by the first track's name alone,
\* which is the prefix.  When it returns, the comment is the telemetry block.
C10_CommentOnlyOnReturn ==
    (call # None /\ call[1].fn = "generate_waypoints") =>
        LET old == call[1].gpx
            r == call[1].result
        IN  /\ r.raised =>
                 /\ "waypoints" \notin DOMAIN r
                 /\ NoTrackData(old) => r.gpx = old
                 /\ ~NoTrackData(old) =>
                      /\ r.gpx.tracks[1].comment = old.tracks[1].comment
                      /\ r.gpx.tracks[1].name = Some(Prefix)
                      /\ r.gpx = [old EXCEPT !.tracks[1].name = Some(Prefix)]
            /\ ~r.raised =>
                 /\ r.gpx.tracks[1].comment # old.tracks[1].comment
                 /\ r.gpx = [old EXCEPT !.tracks[1].name = Some(Prefix),
                                        !.tracks[1].comment = r.gpx.tracks[1].comment]
            /\ gpx = Some(r.gpx)

\* the distance computation raised on a named and commented track: the name is
\* the prefix already, the comment is still the old one
C10_Witness ==
    /\ call # None
    /\ call[1].fn = "generate_waypoints"
    /\ call[1].result.raised
    /\ call[1].result.exc = DistanceError
    /\ call[1].gpx.tracks[1].name = Some("Morning hike")
    /\ gpx[1].tracks[1].name = Some(Prefix)
    /\ gpx[1].tracks[1].comment = Some("raw")

\* the four raising paths
C10_WitnessNoTrack ==
    call # None /\ call[1].fn = "generate_waypoints" /\ call[1].result.raised
    /\ call[1].gpx.tracks # <<>> /\ NoTrackData(call[1].gpx)

C10_WitnessEmpty ==
    call # None /\ call[1].fn = "generate_waypoints" /\ call[1].result.raised
    /\ call[1].result.exc = EmptyTrackError /\ gpx[1].tracks[1].comment = Some("raw")

C10_WitnessNoElevation ==
    call # None /\ call[1].fn = "generate_waypoints" /\ call[1].result.raised
    /\ call[1].result.exc = NoElevationError /\ gpx[1].tracks[1].comment = Some("raw")

====
